---- MODULE Spec2Model ----
(***************************************************************************)
(* Model of the error-interception decorators of toolbar:                  *)
(*   decorators/except_handlers.py      err_interceptor, raise_if_return,  *)
(*                                      err_log_and_return                 *)
(*   toolbar/except_handlers/interfaces.py   intercept_err_and_log,        *)
(*                                      log_err, raise_except, raise_type  *)
(*   toolbar/except_handlers/accessories.py  message templates and the     *)
(*                                      exception classifiers              *)
(*                                                                         *)
(* One decorated function is shared by the callers in Threads.  Python     *)
(* objects are records; exception instances live in `heap`, so that        *)
(* identity and the mutable __cause__ attribute are part of the state.     *)
(***************************************************************************)
EXTENDS Integers, Sequences, FiniteSets, TLC

VARIABLES policy,    \* arguments the decorator was built with (its closure)
          heap,      \* exception instances: [cls, msg, cause]
          log,       \* records the sink has written
          pc,        \* per caller: position inside the wrapper
          call,      \* per caller: args and kwargs of the invocation
          caught,    \* per caller: the error handed to the handler
          result,    \* per caller: what the wrapped function returned
          outcome,   \* per caller: what the wrapper delivered
          nlog,      \* per caller: sink.log calls made by the invocation
          calls      \* invocations started so far

vars == <<policy, heap, log, pc, call, caught, result, outcome, nlog, calls>>

\* ------------------------------------------------------------------ bounds
MaxCalls == 2

Threads == {"t1", "t2"}

\* ----------------------------------------------------------- Python values
NoValue == [kind |-> "absent", cls |-> "", txt |-> "", ref |-> 0]
None_ == [kind |-> "none", cls |-> "NoneType", txt |-> "None", ref |-> 0]
StrV(s) == [kind |-> "value", cls |-> "str", txt |-> s, ref |-> 0]
IntV(s) == [kind |-> "value", cls |-> "int", txt |-> s, ref |-> 0]
BoolV(s) == [kind |-> "value", cls |-> "bool", txt |-> s, ref |-> 0]
DictV == [kind |-> "value", cls |-> "dict", txt |-> "{}", ref |-> 0]
FuncV(name) == [kind |-> "func", cls |-> "function", txt |-> name, ref |-> 0]
ExcType(c) == [kind |-> "exc_type", cls |-> "type", txt |-> c, ref |-> 0]
\* datetime.time(12, 0), datetime.date(2024, 1, 1), datetime.datetime(2024, 1, 1, 12, 0)
TimeV == [kind |-> "value", cls |-> "time", txt |-> "12:00:00", ref |-> 0]
DateV == [kind |-> "value", cls |-> "date", txt |-> "2024-01-01", ref |-> 0]
DatetimeV == [kind |-> "value", cls |-> "datetime", txt |-> "2024-01-01 12:00:00", ref |-> 0]

\* the exception instance stored at heap address r
Obj(h, r) == [kind |-> "exc_inst", cls |-> h[r].cls, txt |-> h[r].msg, ref |-> r]

\* heap after constructing cls(msg); the new instance is the last object
New(h, c, msg) == Append(h, [cls |-> c, msg |-> msg, cause |-> 0])

Last(h) == Obj(h, Len(h))

\* class hierarchy (the direct base of each class)
Base(c) ==
    CASE c = "bool" -> "int"
      [] c = "datetime" -> "date"
      [] c = "ZeroDivisionError" -> "ArithmeticError"
      [] c = "ArithmeticError" -> "Exception"
      [] c \in {"ComputeError", "ValueError", "AttributeError", "TypeError",
                "OSError"} -> "Exception"
      [] c \in {"Exception", "KeyboardInterrupt"} -> "BaseException"
      [] OTHER -> "object"

RECURSIVE IsSubclass(_, _)
IsSubclass(c, d) ==
    IF c = d THEN TRUE
    ELSE IF c = "object" THEN FALSE
    ELSE IsSubclass(Base(c), d)

\* isinstance(obj, classes) for a tuple of classes
IsInstance(obj, classes) ==
    /\ obj.kind \in {"none", "value", "func", "exc_type", "exc_inst"}
    /\ \E c \in classes : IsSubclass(obj.cls, c)

\* bool(obj)
Truthy(obj) ==
    CASE obj.kind = "none" -> FALSE
      [] obj.kind = "value" /\ obj.cls = "str" -> obj.txt # ""
      [] obj.kind = "value" /\ obj.cls = "int" -> obj.txt # "0"
      [] obj.kind = "value" /\ obj.cls = "bool" -> obj.txt = "True"
      [] obj.kind = "value" /\ obj.cls = "dict" -> obj.txt # "{}"
      [] OTHER -> TRUE

\* str(obj)
Str(obj) ==
    IF obj.kind = "exc_type" THEN "<class '" \o obj.txt \o "'>"
    ELSE IF obj.kind = "func" THEN "<function " \o obj.txt \o ">"
    ELSE obj.txt

\* repr(obj)
Repr(obj) ==
    IF obj.kind = "value" /\ obj.cls = "str" THEN "'" \o obj.txt \o "'"
    ELSE IF obj.kind = "exc_inst"
    THEN obj.cls \o "(" \o (IF obj.txt = "" THEN "" ELSE "'" \o obj.txt \o "'") \o ")"
    ELSE Str(obj)

RECURSIVE JoinRepr(_)
JoinRepr(s) ==
    IF s = <<>> THEN ""
    ELSE IF Len(s) = 1 THEN Repr(s[1])
    ELSE Repr(s[1]) \o ", " \o JoinRepr(Tail(s))

\* str(args) of a tuple of positional arguments
TupleStr(args) ==
    IF Len(args) = 1 THEN "(" \o Repr(args[1]) \o ",)"
    ELSE "(" \o JoinRepr(args) \o ")"

RECURSIVE JoinItems(_)
JoinItems(kw) ==
    IF kw = <<>> THEN ""
    ELSE LET item == "'" \o kw[1][1] \o "': " \o Repr(kw[1][2])
         IN IF Len(kw) = 1 THEN item ELSE item \o ", " \o JoinItems(Tail(kw))

\* str(kwargs) of a dict of keyword arguments (insertion order)
DictStr(kw) == "{" \o JoinItems(kw) \o "}"

\* --------------------------------------------------------- accessories.py
is_exc_instance(obj) ==
    obj.kind = "exc_inst" /\ IsSubclass(obj.cls, "Exception")

is_pure_exc_class(obj) ==
    LET is_instance == is_exc_instance(obj)
        is_exc_class == obj.kind = "exc_type" /\ IsSubclass(obj.txt, "Exception")
    IN ~is_instance /\ is_exc_class

\* is_exception that forgets the classes
is_exception_instances_only(obj) == is_exc_instance(obj)

is_exception(obj) == is_exc_instance(obj) \/ is_pure_exc_class(obj)

\* get_err_str that leaves the class name out
get_err_str_plain(err) == err

get_err_str(err) ==
    IF is_exc_instance(err) THEN StrV(err.cls \o ": " \o Str(err))
    ELSE err

simple_msg_err(err, func_name) ==
    "<" \o func_name \o "> " \o Str(get_err_str(err))

annotated_msg_err(err, func_name, err_annotated) ==
    "<" \o func_name \o "> " \o Str(err_annotated) \o ": " \o Str(get_err_str(err))

get_simple_or_annotated(err, func_name, err_annotated) ==
    IF err_annotated.kind = "none" THEN simple_msg_err(err, func_name)
    ELSE annotated_msg_err(err, func_name, err_annotated)

\* ------------------------------------------------- the raise statement
\* `raise exc` / `raise exc from cause`: a class is instantiated without
\* arguments, an instance is raised as it is, anything else is a TypeError;
\* with `from`, __cause__ of the raised instance is set to the cause (a
\* class given as cause is instantiated too).  Yields the heap afterwards
\* and the instance that propagates.
RaiseStmt(h, exc, has_from, cause) ==
    IF exc.kind \notin {"exc_type", "exc_inst"}
    THEN LET h1 == New(h, "TypeError", "exceptions must derive from BaseException")
         IN [heap |-> h1, raised |-> Last(h1)]
    ELSE LET h1 == IF exc.kind = "exc_type" THEN New(h, exc.txt, "") ELSE h
             e == IF exc.kind = "exc_type" THEN Last(h1) ELSE exc
         IN IF ~has_from THEN [heap |-> h1, raised |-> e]
            ELSE IF cause.kind \notin {"exc_type", "exc_inst", "none"}
            THEN LET h2 == New(h1, "TypeError",
                               "exception causes must derive from BaseException")
                 IN [heap |-> h2, raised |-> Last(h2)]
            ELSE LET h2 == IF cause.kind = "exc_type" THEN New(h1, cause.txt, "")
                           ELSE h1
                     c == IF cause.kind = "exc_type" THEN Len(h2)
                          ELSE IF cause.kind = "exc_inst" THEN cause.ref
                          ELSE 0
                 IN [heap |-> [h2 EXCEPT ![e.ref].cause = c], raised |-> e]

\* ------------------------------------------------------- faulty variants
\* Variants of the helpers below with one plausible slip each; the claims
\* further down must tell every one of them from the code as written.
\* raise_except that forgets `from err`
raise_except_unchained(h, err, err_raise, from_err) ==
    IF Truthy(err_raise) THEN RaiseStmt(h, err_raise, FALSE, None_)
    ELSE RaiseStmt(h, err, FALSE, None_)

\* raise_except that ignores err_raise
raise_except_original(h, err, err_raise, from_err) ==
    RaiseStmt(h, err, FALSE, None_)

\* raise_except without its final `raise err`
raise_except_fallthrough(h, err, err_raise, from_err) ==
    IF Truthy(err_raise)
    THEN RaiseStmt(h, err_raise, TRUE, IF from_err THEN err ELSE err_raise)
    ELSE [heap |-> h, raised |-> NoValue]

\* ---------------------------------------------------------- interfaces.py
\* A helper yields the heap it leaves and the instance it raised; raised is
\* NoValue when the helper returned normally.
raise_except(h, err, err_raise, from_err) ==
    IF Truthy(err_raise)
    THEN RaiseStmt(h, err_raise, TRUE, IF from_err THEN err ELSE err_raise)
    ELSE RaiseStmt(h, err, FALSE, None_)

\* raise_type that lets an instance through
raise_type_unchecked(h, err, msg) ==
    IF err.kind = "exc_inst" THEN [heap |-> h, raised |-> err]
    ELSE IF ~is_pure_exc_class(err)
    THEN LET h1 == New(h, "TypeError",
                       "argument " \o Str(err) \o " must be an exception type")
         IN [heap |-> h1, raised |-> Last(h1)]
    ELSE LET h1 == New(h, err.txt, IF Truthy(msg) THEN Str(msg) ELSE "")
         IN [heap |-> h1, raised |-> Last(h1)]

raise_type(h, err, msg) ==
    IF ~is_pure_exc_class(err)
    THEN LET h1 == New(h, "TypeError",
                       "argument " \o Str(err) \o " must be an exception type")
         IN [heap |-> h1, raised |-> Last(h1)]
    ELSE LET h1 == New(h, err.txt, IF Truthy(msg) THEN Str(msg) ELSE "")
         IN [heap |-> h1, raised |-> Last(h1)]

get_func_name(fn) ==
    LET f == IF fn.kind = "none" \/ ~(fn.kind = "func" \/ fn.cls = "str")
             THEN FuncV("log_err") ELSE fn
    IN f.txt

\* log_obj.log(log_level, err_msg): a working sink stores the record and
\* returns, a failing sink raises its own error
SinkLog(h, lg, t, log_obj, log_level, err_msg) ==
    IF log_obj = "working"
    THEN [heap |-> h, raised |-> NoValue, called |-> 1,
          log |-> Append(lg, [by |-> t, level |-> log_level, msg |-> err_msg])]
    ELSE LET h1 == New(h, "OSError", "sink failure")
         IN [heap |-> h1, raised |-> Last(h1), called |-> 1, log |-> lg]

\* log_err that falls back to a logger of its own when none is given
log_err_default_logger(h, lg, t, err_to_log, err_annotated, log_obj, log_level, source_func) ==
    LET func_name == get_func_name(source_func)
        err_msg == get_simple_or_annotated(err_to_log, func_name, err_annotated)
    IN SinkLog(h, lg, t, IF log_obj = "none" THEN "working" ELSE log_obj,
               log_level, err_msg)

\* log_err that guards log_obj.log with a try/except of its own
log_err_guarded(h, lg, t, err_to_log, err_annotated, log_obj, log_level, source_func) ==
    IF log_obj = "none"
    THEN LET r == raise_type(h, ExcType("AttributeError"), StrV("no logging object"))
         IN [heap |-> r.heap, raised |-> r.raised, called |-> 0, log |-> lg]
    ELSE IF log_obj = "failing"
    THEN [heap |-> h, raised |-> NoValue, called |-> 1, log |-> lg]
    ELSE LET func_name == get_func_name(source_func)
             err_msg == get_simple_or_annotated(err_to_log, func_name, err_annotated)
         IN SinkLog(h, lg, t, log_obj, log_level, err_msg)

\* log_err that never reaches log_obj.log
log_err_silent(h, lg, t, err_to_log, err_annotated, log_obj, log_level, source_func) ==
    IF log_obj = "none"
    THEN LET r == raise_type(h, ExcType("AttributeError"), StrV("no logging object"))
         IN [heap |-> r.heap, raised |-> r.raised, called |-> 0, log |-> lg]
    ELSE [heap |-> h, raised |-> NoValue, called |-> 0, log |-> lg]

log_err(h, lg, t, err_to_log, err_annotated, log_obj, log_level, source_func) ==
    IF log_obj = "none"
    THEN LET r == raise_type(h, ExcType("AttributeError"), StrV("no logging object"))
         IN [heap |-> r.heap, raised |-> r.raised, called |-> 0, log |-> lg]
    ELSE LET func_name == get_func_name(source_func)
             err_msg == get_simple_or_annotated(err_to_log, func_name, err_annotated)
         IN SinkLog(h, lg, t, log_obj, log_level, err_msg)

\* raise_err_and_log that instantiates the class without the message
raise_err_and_log_exc_bare(h, err, err_message) ==
    IF is_pure_exc_class(err) /\ Truthy(err_message)
    THEN LET h1 == New(h, err.txt, "")
         IN [heap |-> h1, err |-> Last(h1)]
    ELSE [heap |-> h, err |-> err]

\* exc_err of raise_err_and_log: the class instantiated with err_message when
\* there is one, otherwise err as it was given
raise_err_and_log_exc(h, err, err_message) ==
    IF is_pure_exc_class(err) /\ Truthy(err_message)
    THEN LET h1 == New(h, err.txt, Str(err_message))
         IN [heap |-> h1, err |-> Last(h1)]
    ELSE [heap |-> h, err |-> err]

\* ------------------------------------------- decorators/except_handlers.py
\* _err_annotated_msg that lets the arguments replace the annotation
_err_annotated_msg_replacing(err_a, add_args, args, kwargs) ==
    IF add_args
    THEN StrV("args=" \o TupleStr(args) \o ", kwargs=" \o DictStr(kwargs))
    ELSE err_a

_err_annotated_msg(err_a, add_args, args, kwargs) ==
    IF add_args
    THEN LET args_kwargs_a == "args=" \o TupleStr(args) \o ", kwargs=" \o DictStr(kwargs)
         IN IF Truthy(err_a) THEN StrV(Str(err_a) \o " " \o args_kwargs_a)
            ELSE StrV(args_kwargs_a)
    ELSE err_a

\* is_raise that ignores raise_by_none
is_raise_any_none(res, r_type, r_none) ==
    IsInstance(res, r_type) \/ res.kind = "none"

is_raise(res, r_type, r_none) ==
    IsInstance(res, r_type) \/ (res.kind = "none" /\ r_none)

\* get_err_msg with the separator of the log template
get_err_msg_colon(res, e_msg_annotate) ==
    IF e_msg_annotate.kind = "none" THEN Str(res)
    ELSE Str(e_msg_annotate) \o ": " \o Str(res)

get_err_msg(res, e_msg_annotate) ==
    IF e_msg_annotate.kind = "none" THEN Str(res)
    ELSE Str(e_msg_annotate) \o ", " \o Str(res)

\* what a wrapper hands to its caller
Returned(v) == [kind |-> "return", val |-> v]
Raised(e) == [kind |-> "raise", val |-> e]
Pending == [kind |-> "none", val |-> NoValue]

\* a wrapper that calls the function and drops what it returned
wrapper_return_dropped(res) == Returned(None_)

\* err_log_and_return that forgets err_output
wrapper_fallback_dropped(err_output) == Returned(None_)

\* `return func(*args, **kwargs)` of err_interceptor and err_log_and_return,
\* `return result` of raise_if_return
wrapper_return(res) == Returned(res)

\* `return err_output` of err_log_and_return
wrapper_fallback(err_output) == Returned(err_output)

\* the error raise_if_return hands to intercept_err_and_log
trigger_err(h, exception, res, err_msg_annotate) ==
    IF is_pure_exc_class(exception)
    THEN LET h1 == New(h, exception.txt, get_err_msg(res, err_msg_annotate))
         IN [heap |-> h1, err |-> Last(h1)]
    ELSE [heap |-> h, err |-> exception]

\* a handler that catches everything the function raises
handler_catches_base(wrapper, err) == wrapper # "raise_if_return"

\* raise_if_return given the try/except of the other two wrappers
handler_catches_everywhere(wrapper, err) == is_exc_instance(err)

\* `except Exception as err` of err_interceptor and err_log_and_return;
\* raise_if_return calls the function outside any try
handler_catches(wrapper, err) ==
    wrapper # "raise_if_return" /\ is_exc_instance(err)

\* annotation each wrapper passes to the logging helper
wrapper_annotation(p, c) ==
    IF p.wrapper = "raise_if_return" THEN None_
    ELSE _err_annotated_msg(p.err_annotated, p.args_to_annotate, c.args, c.kwargs)

\* ------------------------------------------------------------ the policies
\* the function that is decorated
func == FuncV("divide")

\* the instance an application built to pass as err_raise / exception
Prebuilt == [cls |-> "ComputeError", msg |-> "boom", cause |-> 0]

Sinks == {"none", "working", "failing"}

\* log_level as passed to the decorator: omitted, or one of logging's levels
Levels == {[given |-> FALSE, level |-> "NOTSET"],
           [given |-> TRUE, level |-> "WARNING"]}

\* err_output as passed to err_log_and_return: omitted, or a value
Outputs == {[given |-> FALSE, val |-> NoValue], [given |-> TRUE, val |-> DictV]}

\* the defaults of the decorators' signatures
log_level_of(p) == IF p.log_level_given THEN p.log_level ELSE "ERROR"

err_output_of(p) == IF p.err_output_given THEN p.err_output ELSE None_

Annotations == {None_, StrV("ctx")}

InterceptorPolicies ==
    {[wrapper |-> "err_interceptor", err_raise |-> er, err_annotated |-> a,
      args_to_annotate |-> aa, log_obj |-> s, from_err |-> fe,
      log_level_given |-> l.given, log_level |-> l.level,
      raise_by_type |-> {"str"}, raise_by_none |-> FALSE, err_output_given |-> FALSE,
      err_output |-> NoValue] :
        er \in {None_, ExcType("ComputeError"), Obj(<<Prebuilt>>, 1), StrV("junk")},
        a \in Annotations, aa \in BOOLEAN, s \in Sinks, fe \in BOOLEAN,
        l \in Levels}

RaiseIfReturnPolicies ==
    {[wrapper |-> "raise_if_return", err_raise |-> ex, err_annotated |-> a,
      args_to_annotate |-> FALSE, log_obj |-> s, from_err |-> TRUE,
      log_level_given |-> l.given, log_level |-> l.level,
      raise_by_type |-> rt, raise_by_none |-> rn, err_output_given |-> FALSE,
      err_output |-> NoValue] :
        ex \in {ExcType("ValueError"), Obj(<<Prebuilt>>, 1)},
        a \in Annotations, s \in Sinks, l \in Levels,
        rt \in {{"str"}, {"int"}}, rn \in BOOLEAN}

LogAndReturnPolicies ==
    {[wrapper |-> "err_log_and_return", err_raise |-> None_, err_annotated |-> a,
      args_to_annotate |-> aa, log_obj |-> s, from_err |-> TRUE,
      log_level_given |-> l.given, log_level |-> l.level,
      raise_by_type |-> {"str"}, raise_by_none |-> FALSE, err_output_given |-> eo.given,
      err_output |-> eo.val] :
        a \in Annotations, aa \in BOOLEAN, s \in Sinks, l \in Levels,
        eo \in Outputs}

Policies == InterceptorPolicies \cup RaiseIfReturnPolicies \cup LogAndReturnPolicies

\* inputs of one invocation
CallInputs == {[args |-> <<IntV("1")>>, kwargs |-> <<>>],
               [args |-> <<>>, kwargs |-> <<<<"b", IntV("0")>>>>]}

ReturnValues == {StrV("bad input"), BoolV("True"), None_}

RaisedClasses == {"ZeroDivisionError", "KeyboardInterrupt"}

NoCall == [args |-> <<>>, kwargs |-> <<>>]

\* ------------------------------------------------------------ state machine
Init ==
    /\ policy \in Policies
    /\ heap = <<Prebuilt>>
    /\ log = <<>>
    /\ pc = [t \in Threads |-> "idle"]
    /\ call = [t \in Threads |-> NoCall]
    /\ caught = [t \in Threads |-> NoValue]
    /\ result = [t \in Threads |-> NoValue]
    /\ outcome = [t \in Threads |-> Pending]
    /\ nlog = [t \in Threads |-> 0]
    /\ calls = 0

\* a caller invokes the decorated function
Call(t, c) ==
    /\ pc[t] = "idle"
    /\ calls < MaxCalls
    /\ calls' = calls + 1
    /\ pc' = [pc EXCEPT ![t] = "func"]
    /\ call' = [call EXCEPT ![t] = c]
    /\ UNCHANGED <<policy, heap, log, caught, result, outcome, nlog>>

\* the wrapped function returns v
FuncReturn(t, v) ==
    /\ pc[t] = "func"
    /\ result' = [result EXCEPT ![t] = v]
    /\ IF policy.wrapper = "raise_if_return"
          /\ is_raise(v, policy.raise_by_type, policy.raise_by_none)
       THEN LET r == trigger_err(heap, policy.err_raise, v, policy.err_annotated)
            IN /\ heap' = r.heap
               /\ caught' = [caught EXCEPT ![t] = r.err]
               /\ pc' = [pc EXCEPT ![t] = "except"]
               /\ UNCHANGED outcome
       ELSE /\ outcome' = [outcome EXCEPT ![t] = wrapper_return(v)]
            /\ pc' = [pc EXCEPT ![t] = "done"]
            /\ UNCHANGED <<heap, caught>>
    /\ UNCHANGED <<policy, log, call, nlog, calls>>

\* the wrapped function raises a new instance of class c
FuncRaise(t, c) ==
    /\ pc[t] = "func"
    /\ LET h1 == New(heap, c, "division by zero")
           err == Last(h1)
       IN /\ heap' = h1
          /\ IF handler_catches(policy.wrapper, err)
             THEN /\ caught' = [caught EXCEPT ![t] = err]
                  /\ pc' = [pc EXCEPT ![t] = "except"]
                  /\ UNCHANGED outcome
             ELSE /\ outcome' = [outcome EXCEPT ![t] = Raised(err)]
                  /\ pc' = [pc EXCEPT ![t] = "done"]
                  /\ UNCHANGED caught
    /\ UNCHANGED <<policy, log, call, result, nlog, calls>>

\* log_err, called by the handler directly or through intercept_err_and_log
LogErr(t) ==
    /\ pc[t] = "except"
    /\ LET r == log_err(heap, log, t, caught[t], wrapper_annotation(policy, call[t]),
                        policy.log_obj, log_level_of(policy), func)
       IN /\ heap' = r.heap
          /\ log' = r.log
          /\ nlog' = [nlog EXCEPT ![t] = @ + r.called]
          /\ IF r.raised # NoValue
             THEN /\ outcome' = [outcome EXCEPT ![t] = Raised(r.raised)]
                  /\ pc' = [pc EXCEPT ![t] = "done"]
             ELSE /\ pc' = [pc EXCEPT ![t] = "logged"]
                  /\ UNCHANGED outcome
    /\ UNCHANGED <<policy, call, caught, result, calls>>

\* what follows log_err: raise_except, or the fallback of err_log_and_return
Dispose(t) ==
    /\ pc[t] = "logged"
    /\ IF policy.wrapper = "err_log_and_return"
       THEN /\ outcome' = [outcome EXCEPT ![t] = wrapper_fallback(err_output_of(policy))]
            /\ UNCHANGED heap
       ELSE LET r == IF policy.wrapper = "err_interceptor"
                     THEN raise_except(heap, caught[t], policy.err_raise,
                                       policy.from_err)
                     ELSE raise_except(heap, caught[t], None_, TRUE)
            IN /\ heap' = r.heap
               /\ outcome' = [outcome EXCEPT ![t] =
                                IF r.raised # NoValue THEN Raised(r.raised)
                                ELSE Returned(None_)]
    /\ pc' = [pc EXCEPT ![t] = "done"]
    /\ UNCHANGED <<policy, log, call, caught, result, nlog, calls>>

\* the caller has received the result; the invocation's locals are gone
Return(t) ==
    /\ pc[t] = "done"
    /\ pc' = [pc EXCEPT ![t] = "idle"]
    /\ call' = [call EXCEPT ![t] = NoCall]
    /\ caught' = [caught EXCEPT ![t] = NoValue]
    /\ result' = [result EXCEPT ![t] = NoValue]
    /\ outcome' = [outcome EXCEPT ![t] = Pending]
    /\ nlog' = [nlog EXCEPT ![t] = 0]
    /\ UNCHANGED <<policy, heap, log, calls>>

Next ==
    \/ \E t \in Threads, c \in CallInputs : Call(t, c)
    \/ \E t \in Threads, v \in ReturnValues : FuncReturn(t, v)
    \/ \E t \in Threads, c \in RaisedClasses : FuncRaise(t, c)
    \/ \E t \in Threads : LogErr(t)
    \/ \E t \in Threads : Dispose(t)
    \/ \E t \in Threads : Return(t)

Spec == Init /\ [][Next]_vars

TypeOK ==
    /\ policy \in Policies
    /\ calls \in 0..MaxCalls
    /\ \A t \in Threads : pc[t] \in {"idle", "func", "except", "logged", "done"}

\* ------------------------------------------------- datime/validators.py
\* printed form of type(obj)
TypeRepr(obj) ==
    IF obj.cls \in {"time", "date", "datetime"}
    THEN "<class 'datetime." \o obj.cls \o "'>"
    ELSE "<class '" \o obj.cls \o "'>"

\* validators.validate_is_time: the test is isinstance(time, dt.date).  The
\* message of the TypeError is in Russian in the source ('expected
\* datetime.time, got: <type>'); it is transliterated here.
validate_is_time(h, time) ==
    IF ~IsInstance(time, {"date"})
    THEN LET h2 == New(h, "TypeError",
                       "Ozhidaetsya datetime.time, polucheno: " \o TypeRepr(time))
         IN [heap |-> h2, raised |-> Last(h2)]
    ELSE [heap |-> h, raised |-> NoValue]

\* ------------------------------------------- direct use of the helpers
\* A second state machine over the same variables: application code calls
\* the helpers of interfaces.py, accessories.py and validators.py itself, one
\* call after another.  call[t] holds the arguments of the call in progress, caught[t]
\* the exc_err of raise_err_and_log; policy is not used.
ApiCaller == "t1"

NoPolicy == [wrapper |-> "none"]

\* an instance of a class that derives from BaseException only
Interrupt == [cls |-> "KeyboardInterrupt", msg |-> "", cause |-> 0]

ApiHeap == <<Prebuilt, Interrupt>>

NoRequest ==
    [op |-> "none", err |-> NoValue, msg |-> NoValue, ann |-> NoValue,
     add_args |-> FALSE, args |-> <<>>, kwargs |-> <<>>, source_func |-> NoValue]

\* log_err(err_to_log, err_annotated=..., log_obj=logger, source_func=...)
LogErrRequests ==
    {[op |-> "log_err", err |-> e, msg |-> NoValue, ann |-> a,
      add_args |-> FALSE, args |-> <<>>, kwargs |-> <<>>, source_func |-> f] :
        e \in {Obj(ApiHeap, 1), Obj(ApiHeap, 2), ExcType("ValueError"),
               StrV("disk full"), StrV("ValueError")},
        a \in Annotations \cup {StrV("")},
        f \in {FuncV("f"), StrV("f"), None_}}

\* the except block of a wrapper around f, entered with a caught error
HandlerRequests ==
    {[op |-> "handler", err |-> Obj(ApiHeap, 1), msg |-> NoValue, ann |-> a,
      add_args |-> aa, args |-> c.args, kwargs |-> c.kwargs,
      source_func |-> FuncV("f")] :
        a \in Annotations \cup {StrV("")}, aa \in BOOLEAN, c \in CallInputs}

\* is_exception(obj), is_pure_exc_class(obj), is_exc_instance(obj)
ClassifyRequests ==
    {[op |-> "classify", err |-> v, msg |-> NoValue, ann |-> NoValue,
      add_args |-> FALSE, args |-> <<>>, kwargs |-> <<>>, source_func |-> NoValue] :
        v \in {Obj(ApiHeap, 1), Obj(ApiHeap, 2), ExcType("ValueError"),
               ExcType("KeyboardInterrupt"), ExcType("int"), StrV("ValueError"),
               StrV("disk full"), IntV("1"), None_}}

\* raise_type(err, msg=...)
RaiseTypeRequests ==
    {[op |-> "raise_type", err |-> e, msg |-> m, ann |-> NoValue,
      add_args |-> FALSE, args |-> <<>>, kwargs |-> <<>>, source_func |-> NoValue] :
        e \in {ExcType("ValueError"), ExcType("KeyboardInterrupt"),
               Obj(ApiHeap, 1), StrV("ValueError")},
        m \in {None_, StrV("bad input"), StrV("")}}

\* raise_err_and_log(err, err_message=..., err_annotated=..., log_obj=logger,
\*                   source_func=f)
RaiseErrAndLogRequests ==
    {[op |-> "raise_err_and_log", err |-> e, msg |-> m, ann |-> a,
      add_args |-> FALSE, args |-> <<>>, kwargs |-> <<>>,
      source_func |-> FuncV("f")] :
        e \in {ExcType("ValueError"), Obj(ApiHeap, 1)},
        m \in {None_, StrV("bad input")},
        a \in Annotations}

\* validate_is_time(time)
ValidateIsTimeRequests ==
    {[op |-> "validate_is_time", err |-> v, msg |-> NoValue, ann |-> NoValue,
      add_args |-> FALSE, args |-> <<>>, kwargs |-> <<>>, source_func |-> NoValue] :
        v \in {TimeV, DateV, DatetimeV, StrV("12:00"), IntV("1"), None_}}

ApiInit ==
    /\ policy = NoPolicy
    /\ heap = ApiHeap
    /\ log = <<>>
    /\ pc = [t \in Threads |-> "idle"]
    /\ call = [t \in Threads |-> NoRequest]
    /\ caught = [t \in Threads |-> NoValue]
    /\ result = [t \in Threads |-> NoValue]
    /\ outcome = [t \in Threads |-> Pending]
    /\ nlog = [t \in Threads |-> 0]
    /\ calls = 0

\* how a call of a helper ends for its caller
Ended(r) == IF r.raised # NoValue THEN Raised(r.raised) ELSE Returned(None_)

\* a call of log_err with a working sink, from entry to exit
ApiLogErr(t, q) ==
    /\ pc[t] = "idle"
    /\ calls < MaxCalls
    /\ calls' = calls + 1
    /\ LET r == log_err(heap, log, t, q.err, q.ann, "working", "ERROR", q.source_func)
       IN /\ heap' = r.heap
          /\ log' = r.log
          /\ nlog' = [nlog EXCEPT ![t] = r.called]
          /\ outcome' = [outcome EXCEPT ![t] = Ended(r)]
    /\ call' = [call EXCEPT ![t] = q]
    /\ pc' = [pc EXCEPT ![t] = "done"]
    /\ UNCHANGED <<policy, caught, result>>

\* the logging half of a wrapper's except block: the annotation is built by
\* _err_annotated_msg and handed to log_err
ApiHandlerLog(t, q) ==
    /\ pc[t] = "idle"
    /\ calls < MaxCalls
    /\ calls' = calls + 1
    /\ LET err_a == _err_annotated_msg(q.ann, q.add_args, q.args, q.kwargs)
           r == log_err(heap, log, t, q.err, err_a, "working", "ERROR", q.source_func)
       IN /\ heap' = r.heap
          /\ log' = r.log
          /\ nlog' = [nlog EXCEPT ![t] = r.called]
          /\ outcome' = [outcome EXCEPT ![t] = Ended(r)]
    /\ call' = [call EXCEPT ![t] = q]
    /\ pc' = [pc EXCEPT ![t] = "done"]
    /\ UNCHANGED <<policy, caught, result>>

\* the three classifiers applied to one object
ApiClassify(t, q) ==
    /\ pc[t] = "idle"
    /\ calls < MaxCalls
    /\ calls' = calls + 1
    /\ outcome' = [outcome EXCEPT ![t] =
                      Returned([is_exception |-> is_exception(q.err),
                                is_pure_exc_class |-> is_pure_exc_class(q.err),
                                is_exc_instance |-> is_exc_instance(q.err)])]
    /\ call' = [call EXCEPT ![t] = q]
    /\ pc' = [pc EXCEPT ![t] = "done"]
    /\ UNCHANGED <<policy, heap, log, caught, result, nlog>>

\* a call of raise_type, from entry to exit
ApiRaiseType(t, q) ==
    /\ pc[t] = "idle"
    /\ calls < MaxCalls
    /\ calls' = calls + 1
    /\ LET r == raise_type(heap, q.err, q.msg)
       IN /\ heap' = r.heap
          /\ outcome' = [outcome EXCEPT ![t] = Ended(r)]
    /\ call' = [call EXCEPT ![t] = q]
    /\ pc' = [pc EXCEPT ![t] = "done"]
    /\ UNCHANGED <<policy, log, caught, result, nlog>>

\* a call of validate_is_time, from entry to exit
ApiValidateIsTime(t, q) ==
    /\ pc[t] = "idle"
    /\ calls < MaxCalls
    /\ calls' = calls + 1
    /\ LET r == validate_is_time(heap, q.err)
       IN /\ heap' = r.heap
          /\ outcome' = [outcome EXCEPT ![t] = Ended(r)]
    /\ call' = [call EXCEPT ![t] = q]
    /\ pc' = [pc EXCEPT ![t] = "done"]
    /\ UNCHANGED <<policy, log, caught, result, nlog>>

\* raise_err_and_log is entered and resolves exc_err
ApiRaiseErrAndLog(t, q) ==
    /\ pc[t] = "idle"
    /\ calls < MaxCalls
    /\ calls' = calls + 1
    /\ LET x == raise_err_and_log_exc(heap, q.err, q.msg)
       IN /\ heap' = x.heap
          /\ caught' = [caught EXCEPT ![t] = x.err]
    /\ call' = [call EXCEPT ![t] = q]
    /\ pc' = [pc EXCEPT ![t] = "resolved"]
    /\ UNCHANGED <<policy, log, result, outcome, nlog>>

\* raise_err_and_log calls log_err
ApiRaiseErrAndLog_log(t) ==
    /\ pc[t] = "resolved"
    /\ LET q == call[t]
           r == log_err(heap, log, t, caught[t], q.ann, "working", "ERROR",
                        q.source_func)
       IN /\ heap' = r.heap
          /\ log' = r.log
          /\ nlog' = [nlog EXCEPT ![t] = @ + r.called]
          /\ IF r.raised # NoValue
             THEN /\ outcome' = [outcome EXCEPT ![t] = Raised(r.raised)]
                  /\ pc' = [pc EXCEPT ![t] = "done"]
             ELSE /\ pc' = [pc EXCEPT ![t] = "recorded"]
                  /\ UNCHANGED outcome
    /\ UNCHANGED <<policy, call, caught, result, calls>>

\* raise_err_and_log calls raise_except(exc_err)
ApiRaiseErrAndLog_raise(t) ==
    /\ pc[t] = "recorded"
    /\ LET r == raise_except(heap, caught[t], None_, TRUE)
       IN /\ heap' = r.heap
          /\ outcome' = [outcome EXCEPT ![t] = Ended(r)]
    /\ pc' = [pc EXCEPT ![t] = "done"]
    /\ UNCHANGED <<policy, log, call, caught, result, nlog, calls>>

\* the caller goes on after the call
ApiReturn(t) ==
    /\ pc[t] = "done"
    /\ pc' = [pc EXCEPT ![t] = "idle"]
    /\ call' = [call EXCEPT ![t] = NoRequest]
    /\ caught' = [caught EXCEPT ![t] = NoValue]
    /\ outcome' = [outcome EXCEPT ![t] = Pending]
    /\ nlog' = [nlog EXCEPT ![t] = 0]
    /\ UNCHANGED <<policy, heap, log, result, calls>>

ApiNext ==
    \/ \E q \in LogErrRequests : ApiLogErr(ApiCaller, q)
    \/ \E q \in HandlerRequests : ApiHandlerLog(ApiCaller, q)
    \/ \E q \in ClassifyRequests : ApiClassify(ApiCaller, q)
    \/ \E q \in RaiseTypeRequests : ApiRaiseType(ApiCaller, q)
    \/ \E q \in RaiseErrAndLogRequests : ApiRaiseErrAndLog(ApiCaller, q)
    \/ \E q \in ValidateIsTimeRequests : ApiValidateIsTime(ApiCaller, q)
    \/ ApiRaiseErrAndLog_log(ApiCaller)
    \/ ApiRaiseErrAndLog_raise(ApiCaller)
    \/ ApiReturn(ApiCaller)

SpecApi == ApiInit /\ [][ApiNext]_vars

\* ------------------------------------------------------------ vocabulary
\* the invocation of caller t is over and its result is still in view
Done(t) == pc[t] = "done"

\* the handler of caller t was entered: err_interceptor / err_log_and_return
\* caught an Exception, or the result of raise_if_return triggered
Intercepted(t) == caught[t] # NoValue

\* __cause__ of a raised instance (0 is None)
CauseOf(e) == heap[e.ref].cause

\* s occurs in text
Contains(text, s) ==
    \E i \in 1..(Len(text) - Len(s) + 1) : SubSeq(text, i, i + Len(s) - 1) = s

\* the most recent record the sink wrote for caller t
LastRecordBy(t) ==
    LET idx == {i \in 1..Len(log) : log[i].by = t}
    IN log[CHOOSE i \in idx : \A j \in idx : j <= i]

\* --------------------------------------------------------------------- C1
\* C1: err_interceptor with err_raise an exception type, from_err=True and a
\* working sink: when the wrapped function raises an Exception e, the caller
\* receives an instance of the err_raise type whose __cause__ is exactly e.
Thm_C1 ==
    \A t \in Threads :
        (/\ Done(t) /\ Intercepted(t)
         /\ policy.wrapper = "err_interceptor"
         /\ policy.err_raise.kind = "exc_type"
         /\ policy.from_err
         /\ policy.log_obj = "working")
        => /\ outcome[t].kind = "raise"
           /\ outcome[t].val.kind = "exc_inst"
           /\ outcome[t].val.cls = policy.err_raise.txt
           /\ CauseOf(outcome[t].val) = caught[t].ref

Wit_C1 ==
    \E t \in Threads :
        /\ Done(t) /\ Intercepted(t)
        /\ policy.wrapper = "err_interceptor"
        /\ policy.err_raise = ExcType("ComputeError")
        /\ policy.from_err
        /\ policy.log_obj = "working"
        /\ outcome[t].kind = "raise"
        /\ outcome[t].val.cls = "ComputeError"
        /\ CauseOf(outcome[t].val) = caught[t].ref

\* --------------------------------------------------------------------- C2
\* C2: with a working sink, the step that raises out of intercept_err_and_log
\* delivers: the captured error itself (same object, untouched, whatever
\* from_err is) when err_raise is absent; a newly built instance of err_raise
\* constructed without arguments when err_raise is an exception type; the
\* err_raise object itself when err_raise is an instance.
C2Step(t) ==
    (/\ pc[t] = "logged" /\ pc'[t] = "done"
     /\ policy.wrapper \in {"err_interceptor", "raise_if_return"})
    => LET er == IF policy.wrapper = "err_interceptor" THEN policy.err_raise
                 ELSE None_
       IN /\ er.kind = "none"
             => /\ outcome'[t] = Raised(caught[t])
                /\ heap' = heap
          /\ er.kind = "exc_type"
             => /\ outcome'[t].kind = "raise"
                /\ outcome'[t].val.kind = "exc_inst"
                /\ outcome'[t].val.ref \notin 1..Len(heap)
                /\ outcome'[t].val.cls = er.txt
                /\ heap'[outcome'[t].val.ref].msg = ""
          /\ er.kind = "exc_inst"
             => /\ outcome'[t].kind = "raise"
                /\ outcome'[t].val.ref = er.ref

Thm_C2 == [][\A t \in Threads : C2Step(t)]_vars

Wit_C2 ==
    \E t \in Threads :
        /\ Done(t) /\ Intercepted(t)
        /\ policy.wrapper = "err_interceptor"
        /\ policy.err_raise.kind = "exc_type"
        /\ policy.log_obj = "working"
        /\ outcome[t].kind = "raise"
        /\ outcome[t].val.ref > caught[t].ref
        /\ outcome[t].val.txt = ""

\* --------------------------------------------------------------------- C3
\* the result of raise_if_return triggers: its class is one of raise_by_type
\* (or derives from one), or it is None and raise_by_none is set
Triggering(v) ==
    \/ \E c \in policy.raise_by_type : IsSubclass(v.cls, c)
    \/ v = None_ /\ policy.raise_by_none

\* C3: whenever the wrapped function returns normally (for raise_if_return:
\* with a result that does not trigger), each of the three wrappers returns
\* exactly that value and makes no sink.log call in the invocation.
Thm_C3 ==
    \A t \in Threads :
        (/\ Done(t) /\ result[t] # NoValue
         /\ policy.wrapper = "raise_if_return" => ~Triggering(result[t]))
        => /\ outcome[t] = Returned(result[t])
           /\ nlog[t] = 0
           /\ ~Intercepted(t)

Wit_C3 ==
    \E t \in Threads :
        /\ Done(t)
        /\ policy.wrapper = "raise_if_return"
        /\ result[t] = BoolV("True")
        /\ outcome[t] = Returned(BoolV("True"))
        /\ nlog[t] = 0

\* --------------------------------------------------------------------- C4
\* the level the policy asks for: the one given, ERROR when none was given
ConfiguredLevel == IF policy.log_level_given THEN policy.log_level ELSE "ERROR"

\* C4: with a working sink, the step that ends an invocation on an error
\* path (raise of the original or substituted error, raise on a triggering
\* return value, return of the fallback) starts after exactly one sink.log
\* call of that invocation and makes none itself, and every sink.log call
\* writes one record at the configured level (ERROR when unspecified).
C4Step(t) ==
    /\ (/\ pc[t] # "done" /\ pc'[t] = "done"
        /\ caught'[t] # NoValue
        /\ policy.log_obj = "working")
       => /\ pc[t] = "logged"
          /\ nlog[t] = 1
          /\ nlog'[t] = 1
          /\ log' = log
          /\ LastRecordBy(t).level = ConfiguredLevel
    /\ (nlog'[t] > nlog[t] /\ policy.log_obj = "working")
       => /\ nlog'[t] = nlog[t] + 1
          /\ Len(log') = Len(log) + 1
          /\ log'[Len(log')].by = t
          /\ log'[Len(log')].level = ConfiguredLevel
          /\ outcome'[t] = Pending

Thm_C4 == [][\A t \in Threads : C4Step(t)]_vars

Wit_C4 ==
    \E t \in Threads :
        /\ Done(t) /\ Intercepted(t)
        /\ policy.log_obj = "working"
        /\ ~policy.log_level_given
        /\ outcome[t].kind = "raise"
        /\ nlog[t] = 1
        /\ LastRecordBy(t).level = "ERROR"

\* --------------------------------------------------------------------- C5
\* C5: err_log_and_return with a working sink: when the wrapped function
\* raises an Exception, the handler creates no error object and alters none
\* (no substitution, no chaining), and the wrapper returns exactly err_output
\* (None when it was not given) instead of raising.
C5Step(t) ==
    (/\ policy.wrapper = "err_log_and_return"
     /\ policy.log_obj = "working"
     /\ pc[t] \in {"except", "logged"}
     /\ pc'[t] # pc[t])
    => /\ heap' = heap
       /\ pc'[t] = "done"
          => /\ outcome'[t].kind = "return"
             /\ outcome'[t].val = (IF policy.err_output_given
                                   THEN policy.err_output ELSE None_)

Thm_C5 == [][\A t \in Threads : C5Step(t)]_vars

Wit_C5 ==
    \E t \in Threads :
        /\ Done(t) /\ Intercepted(t)
        /\ policy.wrapper = "err_log_and_return"
        /\ policy.log_obj = "working"
        /\ policy.err_output_given
        /\ outcome[t] = Returned(DictV)

\* --------------------------------------------------------------------- C6
\* C6: for every policy (any err_raise, any from_err, sink present, absent or
\* failing) an invocation of err_interceptor whose function raised an
\* Exception, and an invocation of raise_if_return whose result triggered,
\* ends by raising one error instance and never by returning a value.
Thm_C6 ==
    \A t \in Threads :
        (/\ Done(t) /\ Intercepted(t)
         /\ policy.wrapper \in {"err_interceptor", "raise_if_return"})
        => /\ outcome[t].kind = "raise"
           /\ outcome[t].val.kind = "exc_inst"
           /\ outcome[t].val.ref \in 1..Len(heap)

Wit_C6 ==
    \E t \in Threads :
        /\ Done(t) /\ Intercepted(t)
        /\ policy.wrapper = "err_interceptor"
        /\ policy.log_obj = "failing"
        /\ policy.err_raise = StrV("junk")
        /\ outcome[t].kind = "raise"

\* --------------------------------------------------------------------- C7
\* C7: raise_if_return ends by returning if and only if the result does not
\* trigger (its type is not in raise_by_type and it is not None with
\* raise_by_none set); it then returns the result unchanged without a log
\* call.  A triggering result is raised, after exactly one log call when the
\* sink works.  With the default policy (strings only, raise_by_none off)
\* every non-string result, None included, is returned unchanged.
Thm_C7 ==
    \A t \in Threads :
        (Done(t) /\ policy.wrapper = "raise_if_return" /\ result[t] # NoValue)
        => /\ outcome[t].kind = "return" <=> ~Triggering(result[t])
           /\ ~Triggering(result[t])
              => outcome[t] = Returned(result[t]) /\ nlog[t] = 0
           /\ Triggering(result[t])
              => /\ outcome[t].kind = "raise"
                 /\ policy.log_obj = "working" => nlog[t] = 1
           /\ (/\ policy.raise_by_type = {"str"}
               /\ ~policy.raise_by_none
               /\ result[t].cls # "str")
              => outcome[t] = Returned(result[t]) /\ nlog[t] = 0

Wit_C7 ==
    \E t \in Threads :
        /\ Done(t)
        /\ policy.wrapper = "raise_if_return"
        /\ policy.log_obj = "working"
        /\ result[t] = None_
        /\ policy.raise_by_none
        /\ outcome[t].kind = "raise"
        /\ nlog[t] = 1

\* --------------------------------------------------------------------- C8
\* C8: when raise_if_return triggers and `exception` is an exception type
\* (working sink), the error raised is a new instance of that type whose
\* message is `err_msg_annotate, str(result)` if an annotation was given and
\* `str(result)` otherwise, and it has no __cause__.
Thm_C8 ==
    \A t \in Threads :
        (/\ Done(t) /\ Intercepted(t)
         /\ policy.wrapper = "raise_if_return"
         /\ policy.err_raise.kind = "exc_type"
         /\ policy.log_obj = "working")
        => /\ outcome[t].kind = "raise"
           /\ outcome[t].val.kind = "exc_inst"
           /\ outcome[t].val.ref # 1
           /\ outcome[t].val.cls = policy.err_raise.txt
           /\ heap[outcome[t].val.ref].msg =
                 (IF policy.err_annotated = None_ THEN result[t].txt
                  ELSE policy.err_annotated.txt \o ", " \o result[t].txt)
           /\ CauseOf(outcome[t].val) = 0

Wit_C8 ==
    \E t \in Threads :
        /\ Done(t) /\ Intercepted(t)
        /\ policy.wrapper = "raise_if_return"
        /\ policy.err_raise = ExcType("ValueError")
        /\ policy.log_obj = "working"
        /\ policy.err_annotated = StrV("ctx")
        /\ result[t] = StrV("bad input")
        /\ outcome[t].kind = "raise"
        /\ outcome[t].val.cls = "ValueError"
        /\ outcome[t].val.txt = "ctx, bad input"

\* --------------------------------------------------------------------- C9
\* C9: when raise_if_return triggers and `exception` is an exception
\* instance (working sink, annotation given), that instance is raised
\* unchanged and err_msg_annotate appears in the log record.
Cex_C9 ==
    \A t \in Threads :
        (/\ Done(t) /\ Intercepted(t)
         /\ policy.wrapper = "raise_if_return"
         /\ policy.err_raise.kind = "exc_inst"
         /\ policy.err_annotated # None_
         /\ policy.log_obj = "working")
        => /\ outcome[t] = Raised(policy.err_raise)
           /\ heap[1] = Prebuilt
           /\ nlog[t] = 1
           /\ Contains(LastRecordBy(t).msg, policy.err_annotated.txt)

\* -------------------------------------------------------------------- C10
\* C10: when err_interceptor substitutes the error (err_raise an exception
\* type or instance) with from_err false, the raised error has no __cause__.
Cex_C10 ==
    \A t \in Threads :
        (/\ Done(t) /\ Intercepted(t)
         /\ policy.wrapper = "err_interceptor"
         /\ policy.err_raise.kind \in {"exc_type", "exc_inst"}
         /\ ~policy.from_err
         /\ policy.log_obj = "working")
        => /\ outcome[t].kind = "raise"
           /\ CauseOf(outcome[t].val) = 0

Thm_C12 ==
    \A t \in Threads :
        (Done(t) /\ Intercepted(t) /\ policy.log_obj = "failing")
        => /\ outcome[t].kind = "raise"
           /\ outcome[t].val.cls = "OSError"
           /\ outcome[t].val.txt = "sink failure"
           /\ outcome[t].val.ref # caught[t].ref
           /\ outcome[t].val.ref # 1
           /\ nlog[t] = 1

Wit_C12 ==
    \E t \in Threads :
        /\ Done(t) /\ Intercepted(t)
        /\ policy.log_obj = "failing"
        /\ policy.wrapper = "err_log_and_return"
        /\ policy.err_output_given
        /\ outcome[t].kind = "raise"
        /\ outcome[t].val.cls = "OSError"

\* -------------------------------------------------------------------- C13
\* C13: nothing is shared between invocations: an error an invocation has
\* delivered to its caller is not altered (its __cause__ overwritten) by a
\* step of another invocation.
C13Step(t) ==
    (Done(t) /\ pc'[t] = "done" /\ outcome[t].kind = "raise")
    => heap'[outcome[t].val.ref] = heap[outcome[t].val.ref]

Cex_C13 == [][\A t \in Threads : C13Step(t)]_vars

\* -------------------------------------------------------------------- C14
\* C14: raise_if_return, whatever its policy: when the wrapped function
\* raises, the step that takes the error ends the invocation by raising that
\* very instance, untouched, with no sink.log call and no record written.
C14Step(t) ==
    (/\ policy.wrapper = "raise_if_return"
     /\ pc[t] = "func" /\ pc'[t] # "func"
     /\ result'[t] = NoValue)
    => /\ Len(heap') = Len(heap) + 1
       /\ pc'[t] = "done"
       /\ outcome'[t] = Raised(Obj(heap', Len(heap')))
       /\ heap'[Len(heap')].cause = 0
       /\ caught'[t] = NoValue
       /\ nlog'[t] = 0
       /\ log' = log

Thm_C14 == [][\A t \in Threads : C14Step(t)]_vars

Wit_C14 ==
    \E t \in Threads :
        /\ Done(t)
        /\ policy.wrapper = "raise_if_return"
        /\ policy.log_obj = "working"
        /\ result[t] = NoValue
        /\ outcome[t].kind = "raise"
        /\ outcome[t].val.cls = "ZeroDivisionError"
        /\ nlog[t] = 0

\* -------------------------------------------------------------------- C20
\* C20: err_interceptor and err_log_and_return: when the wrapped function
\* raises an instance of a class that does not derive from Exception, the
\* invocation ends at once by raising that very instance, untouched, with no
\* sink.log call, no record, no substitution and no fallback.
C20Step(t) ==
    (/\ policy.wrapper \in {"err_interceptor", "err_log_and_return"}
     /\ pc[t] = "func" /\ pc'[t] # "func"
     /\ result'[t] = NoValue
     /\ ~IsSubclass(heap'[Len(heap')].cls, "Exception"))
    => /\ Len(heap') = Len(heap) + 1
       /\ pc'[t] = "done"
       /\ outcome'[t] = Raised(Obj(heap', Len(heap')))
       /\ heap'[Len(heap')].cause = 0
       /\ caught'[t] = NoValue
       /\ nlog'[t] = 0
       /\ log' = log

Thm_C20 == [][\A t \in Threads : C20Step(t)]_vars

Wit_C20 ==
    \E t \in Threads :
        /\ Done(t)
        /\ policy.wrapper = "err_interceptor"
        /\ policy.err_raise = ExcType("ComputeError")
        /\ policy.log_obj = "working"
        /\ outcome[t].kind = "raise"
        /\ outcome[t].val.cls = "KeyboardInterrupt"
        /\ nlog[t] = 0

\* -------------------------------------------------------------------- C15
\* the label of a record: the name of the function given as source_func, or
\* the string given, or log_err when there is neither
LabelOf(q) ==
    IF q.source_func.kind = "func" \/ q.source_func.cls = "str"
    THEN q.source_func.txt ELSE "log_err"

\* the text of what is logged: `TypeName: str(error)` for an instance of
\* Exception, the printed form of a class, the string form of anything else
RenderedOf(v) ==
    IF v.kind = "exc_inst" /\ IsSubclass(v.cls, "Exception")
    THEN v.cls \o ": " \o v.txt
    ELSE IF v.kind = "exc_type" THEN "<class '" \o v.txt \o "'>"
    ELSE v.txt

\* the annotation and its separator, nothing when no annotation is given
AnnotationPart(ann) == IF ann = None_ THEN "" ELSE ann.txt \o ": "

\* C15 as stated: the message log_err writes is the label, one space and the
\* rendered text, with `annotation: ` before the text when one is supplied.
Cex_C15 ==
    \A t \in Threads :
        (Done(t) /\ call[t].op = "log_err")
        => /\ nlog[t] = 1
           /\ LastRecordBy(t).msg =
                 LabelOf(call[t]) \o " " \o AnnotationPart(call[t].ann)
                 \o RenderedOf(call[t].err)

\* C15, amended: the message is the label between angle brackets, one
\* space and the rendered text, with `annotation: ` before the text when one
\* is supplied.
Thm_C15 ==
    \A t \in Threads :
        (Done(t) /\ call[t].op = "log_err")
        => /\ nlog[t] = 1
           /\ outcome[t] = Returned(None_)
           /\ LastRecordBy(t).msg =
                 "<" \o LabelOf(call[t]) \o "> " \o AnnotationPart(call[t].ann)
                 \o RenderedOf(call[t].err)

Wit_C15 ==
    \E t \in Threads :
        /\ Done(t) /\ call[t].op = "log_err"
        /\ call[t].err = Obj(ApiHeap, 1)
        /\ call[t].ann = StrV("ctx")
        /\ call[t].source_func = FuncV("f")
        /\ LastRecordBy(t).msg = "<f> ctx: ComputeError: boom"

\* -------------------------------------------------------------------- C16
\* `args=..., kwargs=...` of the two calls the model makes
FragmentOf(q) ==
    IF q.args = <<IntV("1")>> /\ q.kwargs = <<>> THEN "args=(1,), kwargs={}"
    ELSE "args=(), kwargs={'b': 0}"

\* the annotation a wrapper logs: with capture on, the fragment appended to a
\* non-empty annotation after one space, or the fragment alone; with capture
\* off, the annotation as it was given
FoldedAnnotation(q) ==
    IF q.add_args
    THEN IF q.ann # None_ /\ q.ann.txt # ""
         THEN StrV(q.ann.txt \o " " \o FragmentOf(q))
         ELSE StrV(FragmentOf(q))
    ELSE q.ann

\* C16 as stated: the captured arguments are folded into the annotation, so
\* that annotation "ctx" and call args (1,) render
\* `f ctx args=(1,), kwargs={}: <errtext>`.
Cex_C16 ==
    \A t \in Threads :
        (Done(t) /\ call[t].op = "handler")
        => /\ nlog[t] = 1
           /\ LastRecordBy(t).msg =
                 LabelOf(call[t]) \o " " \o AnnotationPart(FoldedAnnotation(call[t]))
                 \o RenderedOf(call[t].err)
           /\ (/\ call[t].ann = StrV("ctx") /\ call[t].add_args
               /\ call[t].args = <<IntV("1")>>)
              => LastRecordBy(t).msg = "f ctx args=(1,), kwargs={}: ComputeError: boom"

\* C16, amended: the captured arguments are folded into the annotation and
\* never replace it (an empty annotation counts as absent), so that
\* annotation "ctx" and call args (1,) render
\* `<f> ctx args=(1,), kwargs={}: <errtext>`, the label between angle
\* brackets; with capture off the annotation is passed through unchanged.
Thm_C16 ==
    \A t \in Threads :
        (Done(t) /\ call[t].op = "handler")
        => /\ nlog[t] = 1
           /\ LastRecordBy(t).msg =
                 "<" \o LabelOf(call[t]) \o "> "
                 \o AnnotationPart(FoldedAnnotation(call[t]))
                 \o RenderedOf(call[t].err)
           /\ (/\ call[t].ann = StrV("ctx") /\ call[t].add_args
               /\ call[t].args = <<IntV("1")>>)
              => LastRecordBy(t).msg = "<f> ctx args=(1,), kwargs={}: ComputeError: boom"

Wit_C16 ==
    \E t \in Threads :
        /\ Done(t) /\ call[t].op = "handler"
        /\ call[t].ann = StrV("ctx") /\ call[t].add_args
        /\ call[t].args = <<IntV("1")>>
        /\ LastRecordBy(t).msg = "<f> ctx args=(1,), kwargs={}: ComputeError: boom"

\* -------------------------------------------------------------------- C17
\* C17: for every object, is_exc_instance and is_pure_exc_class are never
\* both true; is_exception holds iff one of them holds; is_pure_exc_class
\* holds iff the object is a class deriving from Exception (and so not an
\* instance); is_exc_instance holds iff it is an instance of such a class; a
\* plain string, the name of an error type included, satisfies none.
Thm_C17 ==
    \A t \in Threads :
        (Done(t) /\ call[t].op = "classify")
        => LET v == call[t].err
               f == outcome[t].val
           IN /\ ~(f.is_exc_instance /\ f.is_pure_exc_class)
              /\ f.is_exception <=> (f.is_exc_instance \/ f.is_pure_exc_class)
              /\ f.is_pure_exc_class
                 <=> (v.kind = "exc_type" /\ IsSubclass(v.txt, "Exception"))
              /\ f.is_exc_instance
                 <=> (v.kind = "exc_inst" /\ IsSubclass(v.cls, "Exception"))
              /\ v.cls = "str"
                 => ~f.is_exception /\ ~f.is_pure_exc_class /\ ~f.is_exc_instance

Wit_C17 ==
    \E t \in Threads :
        /\ Done(t) /\ call[t].op = "classify"
        /\ call[t].err = ExcType("ValueError")
        /\ outcome[t].val.is_pure_exc_class
        /\ outcome[t].val.is_exception
        /\ ~outcome[t].val.is_exc_instance

\* -------------------------------------------------------------------- C18
\* C18: raise_type always raises.  Given anything but a class deriving from
\* Exception it raises a new TypeError, not the object given; given such a
\* class it raises a new instance of it, built with the message when there is
\* one and without arguments otherwise.
Thm_C18 ==
    \A t \in Threads :
        (Done(t) /\ call[t].op = "raise_type")
        => LET e == call[t].err
               m == call[t].msg
               x == outcome[t].val
           IN /\ outcome[t].kind = "raise"
              /\ x.kind = "exc_inst"
              /\ x.ref = Len(heap) /\ x.ref > Len(ApiHeap)
              /\ heap[x.ref].cause = 0
              /\ IF e.kind = "exc_type" /\ IsSubclass(e.txt, "Exception")
                 THEN /\ x.cls = e.txt
                      /\ heap[x.ref].msg = (IF m = None_ THEN "" ELSE m.txt)
                 ELSE /\ x.cls = "TypeError"
                      /\ x.ref # e.ref

Wit_C18 ==
    \E t \in Threads :
        /\ Done(t) /\ call[t].op = "raise_type"
        /\ call[t].err = ExcType("ValueError")
        /\ call[t].msg = StrV("bad input")
        /\ outcome[t].kind = "raise"
        /\ outcome[t].val.cls = "ValueError"
        /\ outcome[t].val.txt = "bad input"

\* -------------------------------------------------------------------- C19
\* C19: raise_err_and_log (working sink).  Given an exception type and a
\* message, exc_err is a new instance of the type built with the message;
\* given an instance, exc_err is that instance, unchanged.  One record that
\* renders exc_err is written, and only after it the call ends, by raising
\* exc_err itself; the call never returns.
C19Step(t) ==
    LET q == call'[t]
        given_type == q.err.kind = "exc_type" /\ q.msg # None_
        given_inst == q.err.kind = "exc_inst"
    IN (q.op = "raise_err_and_log" /\ pc'[t] # pc[t])
       => /\ (pc'[t] = "resolved" /\ given_type)
             => /\ caught'[t].kind = "exc_inst"
                /\ caught'[t].ref = Len(heap') /\ Len(heap') = Len(heap) + 1
                /\ caught'[t].cls = q.err.txt
                /\ heap'[caught'[t].ref].msg = q.msg.txt
          /\ (pc'[t] = "resolved" /\ given_inst)
             => caught'[t] = q.err /\ heap' = heap
          /\ (pc[t] = "resolved" /\ (given_type \/ given_inst))
             => /\ pc'[t] = "recorded"
                /\ nlog'[t] = 1
                /\ log' = Append(log, [by |-> t, level |-> "ERROR",
                                       msg |-> "<f> " \o AnnotationPart(q.ann)
                                               \o caught[t].cls \o ": "
                                               \o caught[t].txt])
                /\ outcome'[t] = Pending
                /\ heap' = heap
          /\ (pc'[t] = "done")
             => /\ pc[t] = "recorded"
                /\ nlog[t] = 1 /\ nlog'[t] = 1
                /\ log' = log
                /\ outcome'[t].kind = "raise"
                /\ (given_type \/ given_inst)
                   => outcome'[t] = Raised(caught[t]) /\ heap' = heap

Thm_C19 == [][\A t \in Threads : C19Step(t)]_vars

Wit_C19 ==
    \E t \in Threads :
        /\ Done(t) /\ call[t].op = "raise_err_and_log"
        /\ call[t].err = ExcType("ValueError")
        /\ call[t].msg = StrV("bad input")
        /\ nlog[t] = 1
        /\ outcome[t] = Raised(caught[t])
        /\ outcome[t].val.cls = "ValueError"
        /\ outcome[t].val.txt = "bad input"
        /\ LastRecordBy(t).msg = "<f> ValueError: bad input"

\* -------------------------------------------------------------------- C21
\* C21: validate_is_time raises TypeError if and only if its argument is not
\* a datetime.time object: a datetime.time is accepted (the call returns),
\* a value of any other type, datetime.date and datetime.datetime included,
\* is rejected.
Cex_C21 ==
    \A t \in Threads :
        (Done(t) /\ call[t].op = "validate_is_time")
        => IF IsInstance(call[t].err, {"time"})
           THEN outcome[t] = Returned(None_)
           ELSE /\ outcome[t].kind = "raise"
                /\ outcome[t].val.cls = "TypeError"

====
